---- MODULE Spec2Model ----
(***************************************************************************)
(* Model of the movie catalog server (src/unnamed/part_000): the User and  *)
(* Movie collections, the server-side sessions, and the request handlers   *)
(* for register, login, logout, add, edit and delete.  A handler that      *)
(* awaits the store twice (register, edit, delete) is split at the point   *)
(* where another request can run in between; the request then waits in the *)
(* bag `pending` with the values it has read so far.  The state is what     *)
(* the server keeps; what a handler answers is an operator of the state it  *)
(* runs in and of the request.                                              *)
(***************************************************************************)
EXTENDS Integers, Sequences, FiniteSets, Bags, TLC

\* ---- bounds of the model ----
MaxSessions == 1
MaxInFlight == 2
MaxMovies == 1
CurrentYear == 2026

\* ---- constants of the program ----
MinPasswordLen == 6
MinYear == 1888
YearSlack == 5
MinRating == 0
MaxRating == 10
MinDuration == 1

Sessions == 1..MaxSessions

VARIABLES users, session, movies, created, pending

vars == <<users, session, movies, created, pending>>

\* ---- request inputs ----
\* A string of a form is a sequence of characters.
PwEmpty == <<>>
PwShort == <<"s", "e", "c", "r", "t">>
PwGood == <<"s", "e", "c", "r", "e", "t">>
PwOther == <<"s", "e", "c", "r", "e", "u">>

\* The registration forms: the four well-formed ones, and one with each field invalid.
RegBodies ==
    [username : {<<"a">>, <<"b">>}, email : {<<"a", "@", "x">>, <<"b", "@", "x">>}, password : {PwGood}]
    \cup {[username |-> <<>>, email |-> <<"a", "@", "x">>, password |-> PwGood],
          [username |-> <<"a">>, email |-> <<"a">>, password |-> PwGood],
          [username |-> <<"a">>, email |-> <<"b", "@", "x">>, password |-> PwShort]}

\* The login forms: either user's email with the right and with a wrong password,
\* and one with each field invalid.
LoginBodies ==
    [email : {<<"a", "@", "x">>, <<"b", "@", "x">>}, password : {PwGood, PwOther}]
    \cup {[email |-> <<"a">>, password |-> PwGood],
          [email |-> <<"a", "@", "x">>, password |-> PwEmpty]}

\* ---- express-validator checks ----
notEmpty(s) == Len(s) > 0

isEmail(s) ==
    \E i \in 1..Len(s) :
        /\ s[i] = "@"
        /\ i > 1
        /\ i < Len(s)
        /\ \A j \in 1..Len(s) : s[j] = "@" => j = i

isLength(s, min) == Len(s) >= min

isInt(n, min, max) == n >= min /\ n <= max

\* A rating is held in tenths.
isFloat(r, min, max) == r >= min * 10 /\ r <= max * 10

FieldError(param) == [msg |-> "Invalid value", param |-> param]
FormError(msg) == [msg |-> msg, param |-> ""]

\* ---- responses ----
Render(view, errors, old, movie) ==
    [kind |-> "render", to |-> view, id |-> 0, errors |-> errors, old |-> old, movie |-> movie]

Redirect(path, id) ==
    [kind |-> "redirect", to |-> path, id |-> id, errors |-> {}, old |-> {}, movie |-> {}]

\* The handler has not answered: it goes on after an await of the store.
Awaiting == [kind |-> "await", to |-> "", id |-> 0, errors |-> {}, old |-> {}, movie |-> {}]

\* A request whose handler threw outside any try block gets no response.
NoResponse == [kind |-> "none", to |-> "", id |-> 0, errors |-> {}, old |-> {}, movie |-> {}]

\* ---- requests in flight ----
\* A request that awaits the store after its first query: its route, the id in
\* its path, req.movie and req.body, as far as the rest of the handler reads them.
InFlight(op, id, movie, body) == [op |-> op, id |-> id, movie |-> movie, body |-> body]

Waiting == BagToSet(pending)

CanAccept == BagCardinality(pending) < MaxInFlight

Accept(r) == pending (+) SetToBag({r})

Finish(r) == pending (-) SetToBag({r})

\* ---- bcrypt ----
\* A hash is a one-way image of the password: it is never the password itself.
bcryptHash(password) == [bcrypt |-> password]

bcryptCompare(password, hash) == hash = bcryptHash(password)

\* ---- ObjectId ----
\* An ObjectId and its string form are different values; the session store
\* keeps the string form, the Movie document keeps the ObjectId.
toString(oid) == [hex |-> oid]
castObjectId(str) == str.hex

\* ---- User collection ----
\* The _id of a user is its position in the collection; users are never removed.
UserIds == 1..Len(users)

Min(S) == CHOOSE x \in S : \A y \in S : x <= y

First(S) == IF S = {} THEN {} ELSE {Min(S)}

FindOneByEmailOnly(email, username) ==
    First({i \in UserIds : users[i].email = email})

FindOneByEmailOrUsername(email, username) ==
    First({i \in UserIds : users[i].email = email \/ users[i].username = username})

FindOneByEmail(email) == First({i \in UserIds : users[i].email = email})

UniqueIndexOff(username, email) == FALSE

\* The unique indexes of userSchema reject a document that repeats a username or an email.
UniqueIndexRejects(username, email) ==
    \E i \in UserIds : users[i].username = username \/ users[i].email = email

RegisterCheck(param, body) ==
    CASE param = "username" -> notEmpty(body.username)
      [] param = "email" -> isEmail(body.email)
      [] param = "password" -> isLength(body.password, MinPasswordLen)

RegisterErrors(body) ==
    {FieldError(param) : param \in {q \in {"username", "email", "password"} : ~RegisterCheck(q, body)}}

\* How POST /register ends, or that it goes on to the save.
RegisterOutcome(body, fail) ==
    IF RegisterErrors(body) # {} THEN "invalid"
    ELSE IF fail THEN "error"
    ELSE IF FindOneByEmailOrUsername(body.email, body.username) # {} THEN "conflict"
    ELSE "continue"

RegisterResponse(body, fail) ==
    LET outcome == RegisterOutcome(body, fail) IN
    CASE outcome = "invalid" -> Render("register", RegisterErrors(body), {body}, {})
      [] outcome = "error" -> Render("register", {FormError("Error: store")}, {body}, {})
      [] outcome = "conflict" ->
            Render("register", {FormError("Username or email already exists")}, {body}, {})
      [] outcome = "continue" -> Awaiting

\* The requests in flight once POST /register has run up to its existence query.
RegisterPending(body, fail) ==
    IF RegisterOutcome(body, fail) = "continue"
    THEN Accept(InFlight("register", 0, {}, {body}))
    ELSE pending

\* POST /register up to the existence query.
Register(body, fail) ==
    /\ CanAccept
    /\ pending' = RegisterPending(body, fail)
    /\ UNCHANGED <<users, session, movies, created>>

RegisterSaveOutcome(body, fail) ==
    IF fail THEN "error"
    ELSE IF UniqueIndexRejects(body.username, body.email) THEN "duplicate key"
    ELSE "saved"

RegisterSaveResponse(body, fail) ==
    LET outcome == RegisterSaveOutcome(body, fail) IN
    CASE outcome = "error" -> Render("register", {FormError("Error: store")}, {body}, {})
      [] outcome = "duplicate key" ->
            Render("register", {FormError("Error: E11000 duplicate key")}, {body}, {})
      [] outcome = "saved" -> Redirect("/login", 0)

\* The users once POST /register has run from the hashing of the password on.
RegisterSaveUsers(body, fail) ==
    IF RegisterSaveOutcome(body, fail) = "saved"
    THEN Append(users, [username |-> body.username, email |-> body.email,
                        password |-> bcryptHash(body.password)])
    ELSE users

\* POST /register from the hashing of the password to the response.
RegisterSave(r, fail) ==
    /\ r \in Waiting
    /\ r.op = "register"
    /\ users' = RegisterSaveUsers(CHOOSE b \in r.body : TRUE, fail)
    /\ pending' = Finish(r)
    /\ UNCHANGED <<session, movies, created>>

\* ---- sessions ----
PrincipalWithHash(i) ==
    [_id |-> toString(i), username |-> users[i].username, email |-> users[i].email,
     password |-> users[i].password]

\* What the session store holds for a logged-in user.
Principal(i) ==
    [_id |-> toString(i), username |-> users[i].username, email |-> users[i].email]

LoginCheck(param, body) ==
    CASE param = "email" -> isEmail(body.email)
      [] param = "password" -> notEmpty(body.password)

LoginErrors(body) ==
    {FieldError(param) : param \in {q \in {"email", "password"} : ~LoginCheck(q, body)}}

UnknownEmailLeak(body) ==
    Render("login", {FormError("No account with that email")}, {body}, {})

UnknownEmailResponse(body) ==
    Render("login", {FormError("Invalid credentials")}, {body}, {})

WrongPasswordResponse(body) ==
    Render("login", {FormError("Invalid credentials")}, {body}, {})

\* How POST /login ends.
LoginOutcome(body, fail) ==
    IF LoginErrors(body) # {} THEN "invalid"
    ELSE IF fail THEN "error"
    ELSE IF FindOneByEmail(body.email) = {} THEN "unknown email"
    ELSE IF \E i \in FindOneByEmail(body.email) : ~bcryptCompare(body.password, users[i].password)
    THEN "wrong password"
    ELSE "logged in"

LoginResponse(body, fail) ==
    LET outcome == LoginOutcome(body, fail) IN
    CASE outcome = "invalid" -> Render("login", LoginErrors(body), {body}, {})
      [] outcome = "error" -> Render("login", {FormError("Error logging in")}, {body}, {})
      [] outcome = "unknown email" -> UnknownEmailResponse(body)
      [] outcome = "wrong password" -> WrongPasswordResponse(body)
      [] outcome = "logged in" -> Redirect("/dashboard", 0)

\* The sessions after POST /login.
LoginSession(s, body, fail) ==
    IF LoginOutcome(body, fail) = "logged in"
    THEN [session EXCEPT ![s] = {Principal(i) : i \in FindOneByEmail(body.email)}]
    ELSE session

\* POST /login
Login(s, body, fail) ==
    /\ session' = LoginSession(s, body, fail)
    /\ UNCHANGED <<users, movies, created, pending>>

SessionKeep(s) == session

SessionDestroy(s) == [session EXCEPT ![s] = {}]

LogoutResponse == Redirect("/", 0)

\* GET /logout
Logout(s) ==
    /\ session' = SessionDestroy(s)
    /\ UNCHANGED <<users, movies, created, pending>>

\* ---- Movie collection ----
\* The fields of a movie form.  genres is one value or an array of values;
\* addedBy is 0 when the form carries no such field.
Base ==
    [name |-> <<"D">>, description |-> <<"d">>, year |-> MinYear,
     genres |-> [isArray |-> FALSE, vals |-> <<(<<"g">>)>>], rating |-> MinRating * 10,
     duration |-> MinDuration, addedBy |-> 0]

MovieBodies ==
    {Base,
     [Base EXCEPT !.year = CurrentYear + YearSlack, !.rating = MaxRating * 10,
                  !.genres = [isArray |-> TRUE, vals |-> <<(<<"g">>), (<<"h">>)>>],
                  !.addedBy = 2],
     [Base EXCEPT !.name = <<>>],
     [Base EXCEPT !.description = <<>>],
     [Base EXCEPT !.year = MinYear - 1],
     [Base EXCEPT !.year = CurrentYear + YearSlack + 1],
     [Base EXCEPT !.genres = [isArray |-> FALSE, vals |-> <<(<<>>)>>]],
     [Base EXCEPT !.rating = MinRating * 10 - 1],
     [Base EXCEPT !.rating = MaxRating * 10 + 1, !.addedBy = 2],
     [Base EXCEPT !.duration = MinDuration - 1]}

MovieParams == {"name", "description", "year", "genres", "rating", "duration"}

MovieCheckNoDuration(param, body) ==
    CASE param = "name" -> notEmpty(body.name)
      [] param = "description" -> notEmpty(body.description)
      [] param = "year" -> isInt(body.year, MinYear, CurrentYear + YearSlack)
      [] param = "genres" -> \A k \in 1..Len(body.genres.vals) : notEmpty(body.genres.vals[k])
      [] param = "rating" -> isFloat(body.rating, MinRating, MaxRating)
      [] param = "duration" -> TRUE

MovieCheck(param, body) ==
    CASE param = "name" -> notEmpty(body.name)
      [] param = "description" -> notEmpty(body.description)
      [] param = "year" -> isInt(body.year, MinYear, CurrentYear + YearSlack)
      [] param = "genres" -> \A k \in 1..Len(body.genres.vals) : notEmpty(body.genres.vals[k])
      [] param = "rating" -> isFloat(body.rating, MinRating, MaxRating)
      [] param = "duration" -> body.duration >= MinDuration

MovieErrors(body) ==
    {FieldError(param) : param \in {q \in MovieParams : ~MovieCheck(q, body)}}

\* Array.isArray(req.body.genres) ? req.body.genres : [req.body.genres]
GenresArray(genres) == IF genres.isArray THEN genres.vals ELSE <<genres.vals[1]>>

UpdateFieldsFromBody(body) ==
    [f \in {g \in MovieParams \cup {"addedBy"} : g = "addedBy" => body.addedBy # 0} |->
        IF f = "genres" THEN GenresArray(body.genres) ELSE body[f]]

\* The fields that POST /movies/:id/edit hands to findByIdAndUpdate.
UpdateFields(body) ==
    [name |-> body.name, description |-> body.description, year |-> body.year,
     genres |-> GenresArray(body.genres), rating |-> body.rating, duration |-> body.duration]

\* The document that POST /movies/add saves.
NewMovie(body, principal) ==
    [name |-> body.name, description |-> body.description, year |-> body.year,
     genres |-> GenresArray(body.genres), rating |-> body.rating, duration |-> body.duration,
     addedBy |-> castObjectId(principal._id)]

FindByIdAndUpsert(id, fields) ==
    [i \in DOMAIN movies \cup {id} |->
        [f \in MovieParams \cup {"addedBy"} |->
            IF i = id /\ f \in DOMAIN fields THEN fields[f]
            ELSE IF i \in DOMAIN movies THEN movies[i][f]
            ELSE 0]]

\* Sets the given fields of the document, if there is one; no upsert.
FindByIdAndUpdate(id, fields) ==
    [i \in DOMAIN movies |->
        IF i = id
        THEN [f \in DOMAIN movies[i] |-> IF f \in DOMAIN fields THEN fields[f] ELSE movies[i][f]]
        ELSE movies[i]]

FindByIdAndDelete(id) == [i \in DOMAIN movies \ {id} |-> movies[i]]

MovieSave(id, doc) == [i \in DOMAIN movies \cup {id} |-> IF i = id THEN doc ELSE movies[i]]

\* The ids a request can name: those of the movies, and one that none has.
MovieIds == 1..(MaxMovies + 1)

requireLogin(s) == session[s] # {}

ThePrincipal(s) == CHOOSE u \in session[s] : TRUE

IsOwnerAny(movie, principal) == TRUE

IsOwner(movie, principal) == toString(movie.addedBy) = principal._id

\* What requireLogin followed by isMovieOwner decides.
GuardOutcome(s, id, fail) ==
    IF ~requireLogin(s) THEN "unauthenticated"
    ELSE IF fail THEN "error"
    ELSE IF id \notin DOMAIN movies THEN "notfound"
    ELSE IF ~IsOwner(movies[id], ThePrincipal(s)) THEN "forbidden"
    ELSE "pass"

GuardRedirectUniform(outcome) == "/movies"

GuardRedirect(outcome) == IF outcome = "unauthenticated" THEN "/login" ELSE "/movies"

GuardResponse(s, id, fail) ==
    LET outcome == GuardOutcome(s, id, fail) IN
    IF outcome = "pass" THEN Awaiting ELSE Redirect(GuardRedirect(outcome), 0)

\* How POST /movies/add ends.
AddMovieOutcome(s, body, fail) ==
    IF ~requireLogin(s) THEN "unauthenticated"
    ELSE IF MovieErrors(body) # {} THEN "invalid"
    ELSE IF fail THEN "error"
    ELSE "saved"

AddMovieResponse(s, body, fail) ==
    LET outcome == AddMovieOutcome(s, body, fail) IN
    CASE outcome = "unauthenticated" -> Redirect("/login", 0)
      [] outcome = "invalid" -> Render("add-movie", MovieErrors(body), {body}, {})
      [] outcome = "error" -> Render("add-movie", {FormError("Error saving movie")}, {body}, {})
      [] outcome = "saved" -> Redirect("/movies/:id", created + 1)

\* The movies after POST /movies/add.
AddMovieMovies(s, body, fail) ==
    IF AddMovieOutcome(s, body, fail) = "saved"
    THEN MovieSave(created + 1, NewMovie(body, ThePrincipal(s)))
    ELSE movies

\* POST /movies/add
AddMovie(s, body, fail) ==
    /\ AddMovieOutcome(s, body, fail) = "saved" => created < MaxMovies
    /\ movies' = AddMovieMovies(s, body, fail)
    /\ created' = IF AddMovieOutcome(s, body, fail) = "saved" THEN created + 1 ELSE created
    /\ UNCHANGED <<users, session, pending>>

\* requireLogin and isMovieOwner in front of POST /movies/:id/edit; req.movie
\* is the movie as isMovieOwner found it.
EditGuardPending(s, id, fail) ==
    IF GuardOutcome(s, id, fail) = "pass"
    THEN Accept(InFlight("edit", id, {movies[id]}, {}))
    ELSE pending

EditGuard(s, id, fail) ==
    /\ CanAccept
    /\ pending' = EditGuardPending(s, id, fail)
    /\ UNCHANGED <<users, session, movies, created>>

\* requireLogin and isMovieOwner in front of POST /movies/:id/delete, whose
\* handler does not read req.movie.
DeleteGuardPending(s, id, fail) ==
    IF GuardOutcome(s, id, fail) = "pass"
    THEN Accept(InFlight("delete", id, {}, {}))
    ELSE pending

DeleteGuard(s, id, fail) ==
    /\ CanAccept
    /\ pending' = DeleteGuardPending(s, id, fail)
    /\ UNCHANGED <<users, session, movies, created>>

EditOutcome(body, fail) ==
    IF MovieErrors(body) # {} THEN "invalid"
    ELSE IF fail THEN "error"
    ELSE "updated"

EditResponse(r, body, fail) ==
    LET outcome == EditOutcome(body, fail) IN
    CASE outcome = "invalid" -> Render("edit-movie", MovieErrors(body), {}, r.movie)
      [] outcome = "error" -> Render("edit-movie", {FormError("Error updating movie")}, {}, r.movie)
      [] outcome = "updated" -> Redirect("/movies/:id", r.id)

\* The movies after POST /movies/:id/edit.
EditMovies(r, body, fail) ==
    IF EditOutcome(body, fail) = "updated"
    THEN FindByIdAndUpdate(r.id, UpdateFields(body))
    ELSE movies

\* POST /movies/:id/edit behind the guards.
EditCommit(r, body, fail) ==
    /\ r \in Waiting
    /\ r.op = "edit"
    /\ movies' = EditMovies(r, body, fail)
    /\ pending' = Finish(r)
    /\ UNCHANGED <<users, session, created>>

DeleteResponse(fail) == IF fail THEN NoResponse ELSE Redirect("/dashboard", 0)

\* POST /movies/:id/delete behind the guards.
DeleteCommit(r, fail) ==
    /\ r \in Waiting
    /\ r.op = "delete"
    /\ movies' = IF fail THEN movies ELSE FindByIdAndDelete(r.id)
    /\ pending' = Finish(r)
    /\ UNCHANGED <<users, session, created>>

Init ==
    /\ users = <<>>
    /\ session = [s \in Sessions |-> {}]
    /\ movies = [i \in {} |-> 0]
    /\ created = 0
    /\ pending = EmptyBag

\* Registration, login and logout, from the empty store.
NextAuth ==
    \/ \E body \in RegBodies, fail \in BOOLEAN : Register(body, fail)
    \/ \E r \in Waiting, fail \in BOOLEAN : RegisterSave(r, fail)
    \/ \E s \in Sessions, body \in LoginBodies, fail \in BOOLEAN : Login(s, body, fail)
    \/ \E s \in Sessions : Logout(s)

SpecAuth == Init /\ [][NextAuth]_vars

\* The catalog, from the state in which two users have registered.
Registered ==
    <<[username |-> <<"a">>, email |-> <<"a", "@", "x">>, password |-> bcryptHash(PwGood)],
      [username |-> <<"b">>, email |-> <<"b", "@", "x">>, password |-> bcryptHash(PwGood)]>>

InitCatalog ==
    /\ users = Registered
    /\ session = [s \in Sessions |-> {}]
    /\ movies = [i \in {} |-> 0]
    /\ created = 0
    /\ pending = EmptyBag

NextCatalog ==
    \/ \E s \in Sessions, body \in LoginBodies, fail \in BOOLEAN : Login(s, body, fail)
    \/ \E s \in Sessions : Logout(s)
    \/ \E s \in Sessions, body \in MovieBodies, fail \in BOOLEAN : AddMovie(s, body, fail)
    \/ \E s \in Sessions, id \in MovieIds, fail \in BOOLEAN : EditGuard(s, id, fail)
    \/ \E r \in Waiting, body \in MovieBodies, fail \in BOOLEAN : EditCommit(r, body, fail)
    \/ \E s \in Sessions, id \in MovieIds, fail \in BOOLEAN : DeleteGuard(s, id, fail)
    \/ \E r \in Waiting, fail \in BOOLEAN : DeleteCommit(r, fail)

SpecCatalog == InitCatalog /\ [][NextCatalog]_vars

\* ---- properties ----
OwnerOf(id) == movies[id].addedBy

UserOf(s) == castObjectId(ThePrincipal(s)._id)

\* The session has no principal, or one who does not own the movie.
NotOwner(s, id) == session[s] = {} \/ UserOf(s) # OwnerOf(id)

\* C1: a POST edit or POST delete of an existing movie, sent with no session
\* principal or by a principal who is not the movie's owner, is answered with a
\* redirect by the guards, which change no movie, and it does not get past them
\* to the handler that would change one.
OnlyOwnerMutates ==
    \A s \in Sessions, id \in DOMAIN movies, fail \in BOOLEAN :
        NotOwner(s, id)
        => /\ GuardResponse(s, id, fail).kind = "redirect"
           /\ EditGuardPending(s, id, fail) = pending
           /\ DeleteGuardPending(s, id, fail) = pending

NonOwnerAtMovie ==
    \E s \in Sessions, id \in DOMAIN movies :
        /\ session[s] # {}
        /\ UserOf(s) # OwnerOf(id)
        /\ GuardResponse(s, id, FALSE) = Redirect("/movies", 0)

\* C2: the owner of a movie is the user whose session created it, and no step,
\* an update whose form carries an addedBy field included, changes it.
OwnerImmutable ==
    [][/\ \A id \in DOMAIN movies \cap DOMAIN movies' : movies'[id].addedBy = movies[id].addedBy
       /\ \A id \in DOMAIN movies' \ DOMAIN movies :
            \E s \in Sessions, body \in MovieBodies :
                /\ AddMovie(s, body, FALSE)
                /\ session[s] # {}
                /\ movies'[id].addedBy = UserOf(s)
                /\ movies'[id].addedBy \in UserIds]_vars

\* An update has set the fields of a movie from a form that names another owner:
\* a second edit request still holds the movie as it was before that update.
UpdatedWithOwnerField ==
    \E r \in Waiting, body \in MovieBodies :
        /\ r.op = "edit"
        /\ r.id \in DOMAIN movies
        /\ r.movie # {movies[r.id]}
        /\ body.addedBy # 0
        /\ body.addedBy # movies[r.id].addedBy
        /\ \A f \in DOMAIN UpdateFields(body) : movies[r.id][f] = UpdateFields(body)[f]
        /\ \A m \in r.movie : m.addedBy = movies[r.id].addedBy

Duplicate(body) ==
    \E i \in UserIds : users[i].username = body.username \/ users[i].email = body.email

ConflictResponse(body) ==
    Render("register", {FormError("Username or email already exists")}, {body}, {})

\* C3 as stated: every registration attempt that repeats a persisted username or
\* email is answered with the conflict error.
DuplicateAlwaysConflict ==
    \A body \in RegBodies : Duplicate(body) => RegisterResponse(body, FALSE) = ConflictResponse(body)

\* C3: a registration attempt that repeats a persisted username or email
\* persists nothing: it does not go on from the existence query to the save,
\* and one that had passed the query before the other user was persisted saves
\* nothing; if the attempt also passes the validation of its fields and its
\* existence query runs, it is answered with the conflict error.
DuplicateNeverPersisted ==
    /\ \A body \in RegBodies :
        Duplicate(body)
        => /\ \A fail \in BOOLEAN : RegisterPending(body, fail) = pending
           /\ ( /\ Len(body.username) > 0 /\ isEmail(body.email)
                /\ Len(body.password) >= MinPasswordLen )
              => RegisterResponse(body, FALSE) = ConflictResponse(body)
    /\ \A r \in Waiting, fail \in BOOLEAN :
        \A body \in r.body :
            (r.op = "register" /\ Duplicate(body)) => RegisterSaveUsers(body, fail) = users

DuplicateAttempted ==
    /\ Len(users) = 2
    /\ \E body \in RegBodies : Duplicate(body) /\ RegisterResponse(body, FALSE) = ConflictResponse(body)
    /\ \E body \in RegBodies : Duplicate(body) /\ RegisterResponse(body, FALSE) # ConflictResponse(body)

Observable(r) == <<r.kind, r.to, r.errors>>

WellFormedLogin(body) == isEmail(body.email) /\ Len(body.password) > 0

EmailKnown(email) == \E i \in UserIds : users[i].email = email

PasswordMatches(body) ==
    \E i \in UserIds : users[i].email = body.email /\ users[i].password = bcryptHash(body.password)

\* C4: a well-formed login with an email of no user and a well-formed login
\* with the email of a user and a wrong password get the same view and the
\* same error message.
LoginFailuresAlike ==
    \A b1, b2 \in LoginBodies :
        ( /\ WellFormedLogin(b1) /\ WellFormedLogin(b2)
          /\ ~EmailKnown(b1.email)
          /\ EmailKnown(b2.email) /\ ~PasswordMatches(b2) )
        => Observable(LoginResponse(b1, FALSE)) = Observable(LoginResponse(b2, FALSE))

BothLoginFailures ==
    \E b1, b2 \in LoginBodies :
        /\ WellFormedLogin(b1) /\ WellFormedLogin(b2)
        /\ ~EmailKnown(b1.email)
        /\ EmailKnown(b2.email) /\ ~PasswordMatches(b2)
        /\ LoginResponse(b1, FALSE).kind = "render"
        /\ LoginResponse(b2, FALSE).kind = "render"

\* C5: a session gets a principal only from a login whose email is that of a
\* user and whose password verifies against that user's hash, and the principal
\* is that user's _id, username and email and nothing else; a login that
\* fails leaves the sessions as they were.
PrincipalOnlyFromLogin ==
    [][\A s \in Sessions :
        /\ (session'[s] # session[s] /\ session'[s] # {})
            => \E body \in LoginBodies, i \in UserIds :
                /\ Login(s, body, FALSE)
                /\ users[i].email = body.email
                /\ users[i].password = bcryptHash(body.password)
                /\ session'[s] = {[_id |-> toString(i), username |-> users[i].username,
                                   email |-> users[i].email]}
        /\ \A body \in LoginBodies, fail \in BOOLEAN :
            (fail \/ ~WellFormedLogin(body) \/ ~PasswordMatches(body))
            => LoginSession(s, body, fail) = session]_vars

LoggedIn ==
    \E s \in Sessions, i \in UserIds :
        session[s] = {[_id |-> toString(i), username |-> users[i].username, email |-> users[i].email]}

\* C6: logout leaves the session without a principal whether or not it had one
\* and leaves the other sessions alone, and a logout of a session without a
\* principal changes nothing; every gated request of a session without a
\* principal is sent to the login page, changes no movie and does not get past
\* the guards.
LogoutClears ==
    \A s \in Sessions :
        /\ SessionDestroy(s)[s] = {}
        /\ \A t \in Sessions \ {s} : SessionDestroy(s)[t] = session[t]
        /\ session[s] = {} => SessionDestroy(s) = session
        /\ session[s] = {}
            => /\ \A body \in MovieBodies, fail \in BOOLEAN :
                    /\ AddMovieResponse(s, body, fail) = Redirect("/login", 0)
                    /\ AddMovieMovies(s, body, fail) = movies
               /\ \A id \in MovieIds, fail \in BOOLEAN :
                    /\ GuardResponse(s, id, fail) = Redirect("/login", 0)
                    /\ EditGuardPending(s, id, fail) = pending
                    /\ DeleteGuardPending(s, id, fail) = pending

LoggedOut ==
    /\ \A s \in Sessions : session[s] = {}
    /\ DOMAIN movies # {}

InvalidMovie(body) ==
    \/ Len(body.name) = 0
    \/ Len(body.description) = 0
    \/ body.year < MinYear
    \/ body.year > CurrentYear + YearSlack
    \/ \E k \in 1..Len(body.genres.vals) : Len(body.genres.vals[k]) = 0
    \/ body.rating < MinRating * 10
    \/ body.rating > MaxRating * 10
    \/ body.duration < MinDuration

InvalidBodies == {b \in MovieBodies : InvalidMovie(b)}

FieldErrors(r) == r.errors # {} /\ \A e \in r.errors : e.param \in MovieParams

GuardFailuresUniform ==
    \A s \in Sessions, id \in MovieIds :
        (session[s] = {} \/ id \notin DOMAIN movies \/ UserOf(s) # OwnerOf(id))
        => GuardResponse(s, id, FALSE) = Redirect("/movies", 0)

\* C8: a request to an ownership-gated route that fails for want of the movie
\* or of ownership gets one and the same redirect, to /movies; a request
\* without a principal gets a redirect to /login.
GuardFailuresNearlyUniform ==
    \A s \in Sessions, id \in MovieIds :
        /\ session[s] = {} => GuardResponse(s, id, FALSE) = Redirect("/login", 0)
        /\ (session[s] # {} /\ (id \notin DOMAIN movies \/ UserOf(s) # OwnerOf(id)))
            => GuardResponse(s, id, FALSE) = Redirect("/movies", 0)

MissingAndForeignMovie ==
    \E s \in Sessions, id1 \in MovieIds, id2 \in DOMAIN movies :
        /\ session[s] # {}
        /\ id1 \notin DOMAIN movies
        /\ UserOf(s) # OwnerOf(id2)
        /\ GuardResponse(s, id1, FALSE) = GuardResponse(s, id2, FALSE)

\* C9: no two users share a username or an email, two registrations that both
\* passed the existence query before either saved included.
UniqueIdentities ==
    \A i, j \in UserIds :
        i # j => (users[i].username # users[j].username /\ users[i].email # users[j].email)

RacingDuplicate ==
    \E r \in Waiting :
        /\ r.op = "register"
        /\ \E body \in r.body : Duplicate(body) /\ RegisterSaveUsers(body, FALSE) = users

\* C10: a movie that has been deleted never exists again, an update that
\* passed its guard before the delete included; and no movie exists that was
\* not created.
DeletedIsTerminal ==
    [][/\ \A id \in 1..created : id \notin DOMAIN movies => id \notin DOMAIN movies'
       /\ DOMAIN movies' \subseteq 1..created']_vars

UpdateRacesDelete ==
    \E r \in Waiting, body \in MovieBodies :
        /\ r.op = "edit"
        /\ r.id \in 1..created
        /\ r.id \notin DOMAIN movies
        /\ EditResponse(r, body, FALSE) = Redirect("/movies/:id", r.id)
        /\ EditMovies(r, body, FALSE) = movies
====
